---- MODULE Spec2Model ----
(***************************************************************************)
(* A model of package httpclient's Request (request.go): the builder's     *)
(* configuration methods, the terminal methods, toHTTPRequest and doRetry. *)
(* One Request value is modelled, used by one goroutine.  A terminal       *)
(* method is split at the blocking transport call c.Do(r): Call runs the   *)
(* method up to the first send, TransportRespond / TransportFail deliver   *)
(* the outcome of one send and run everything that follows it (the retry   *)
(* decision of doRetry and, when doRetry returns, the rest of Do and of    *)
(* the convenience method that called it).                                 *)
(***************************************************************************)
EXTENDS Integers, Sequences, FiniteSets, TLC

(***************************************************************************)
(* Bounds and input domains.                                               *)
(***************************************************************************)
\* Largest retry count passed to WithRetry.
MaxRetry == 2

\* Largest number of WithHeader calls one goroutine makes when several
\* configure the Request at once.
MaxCalls == 2

\* The goroutines that configure the Request at once.
Threads == {1, 2}

RetryCounts == 0..MaxRetry

\* Status codes passed to WithExpectedStatus; 0 is the unset value.
ExpectedStatuses == {0, 200, 201}

\* Status codes the transport answers with.
Statuses == {200, 500}

\* Go values handed to WithJSON / WithXML: an int, and a channel, which
\* neither encoding/json nor encoding/xml can encode.
GoValues == {"int1", "chan"}

\* Byte strings handed to WithBytes / WithString ("" and "a").
ByteStrings == {<<>>, <<97>>}

\* Header names and values handed to WithHeader / WithContentType.
HeaderKeys == {"Content-Type", "content-type"}

HeaderValues == {"text/plain"}

\* What the header store answers for a key that was never stored.
Absent == "<absent>"

\* The errors of the model.
NoErr == "nil"

TransportErrors == {"connection refused", "context canceled"}

\* The terminal methods of Request.
Terminals == {"Do", "Bytes", "String", "JSON", "XML", "JSONWithError", "XMLWithError"}

(***************************************************************************)
(* Encoding and decoding.                                                  *)
(***************************************************************************)
\* json.NewEncoder(w).Encode(v): the JSON text followed by a newline, or an
\* error with nothing written.
JSONEncode(v) ==
    IF v = "int1" THEN [err |-> NoErr, bytes |-> <<49, 10>>]
    ELSE [err |-> "json: unsupported type", bytes |-> <<>>]

\* xml.NewEncoder(w).Encode(v): the element <int>1</int>, or an error with
\* nothing flushed.
XMLEncode(v) ==
    IF v = "int1"
    THEN [err |-> NoErr,
          bytes |-> <<60, 105, 110, 116, 62, 49, 60, 47, 105, 110, 116, 62>>]
    ELSE [err |-> "xml: unsupported type", bytes |-> <<>>]

\* The bodies a server answers with: a JSON document and an XML document.
ResponseBodies == {JSONEncode("int1").bytes, XMLEncode("int1").bytes}

\* Response decoding: the value whose encoding the bytes are, or an error.
JSONDecode(b) ==
    IF \E v \in GoValues : JSONEncode(v).err = NoErr /\ JSONEncode(v).bytes = b
    THEN [err |-> NoErr,
          val |-> CHOOSE v \in GoValues :
                      JSONEncode(v).err = NoErr /\ JSONEncode(v).bytes = b]
    ELSE [err |-> "json: invalid character", val |-> "zero"]

XMLDecode(b) ==
    IF \E v \in GoValues : XMLEncode(v).err = NoErr /\ XMLEncode(v).bytes = b
    THEN [err |-> NoErr,
          val |-> CHOOSE v \in GoValues :
                      XMLEncode(v).err = NoErr /\ XMLEncode(v).bytes = b]
    ELSE [err |-> "xml: syntax error", val |-> "zero"]

(***************************************************************************)
(* State.                                                                  *)
(***************************************************************************)
VARIABLES
    err,            \* Request.err
    header,         \* Request.header: a function from the stored keys to values
    expectedStatus, \* Request.expectedStatus
    retryCount,     \* Request.retryCount
    body,           \* Request.body: nil, or a bytes.Buffer (data, read offset)
    ctx,            \* Request.ctx: "nil", or a context that is "live" or "cancelled"
    target,         \* whether http.NewRequest accepts Request.method and URL
    pc,             \* "idle", "sending" (inside c.Do) or "returned"
    term,           \* the terminal method being executed / last executed
    req,            \* the http.Request built by toHTTPRequest
    rem,            \* doRetry's retryCount parameter for the current send
    attempts,       \* one record per c.Do call of the current execution
    ret,            \* what the terminal method returned
    out,            \* the caller's out target
    errOut,         \* the caller's errOut target
    given,          \* the bytes the last body-setting call was asked to set
    threads         \* the goroutines calling WithHeader on the Request at once

vars == <<err, header, expectedStatus, retryCount, body, ctx, target, pc, term,
          req, rem, attempts, ret, out, errOut, given, threads>>

config == <<err, header, expectedStatus, retryCount, body, target>>

\* r.body when no With... body method was called: a nil io.ReadWriter.
NilBody == [present |-> FALSE, data |-> <<>>, off |-> 0]

\* A body method that writes into the buffer the Request already holds
\* instead of replacing it.
NewBufferAppending(b) ==
    [present |-> TRUE, data |-> body.data \o b, off |-> body.off]

\* bytes.NewBuffer(b) / bytes.NewBufferString(s): unread buffer holding b.
NewBuffer(b) == [present |-> TRUE, data |-> b, off |-> 0]

\* The unread part of a buffer (bytes.Buffer.Bytes) and its length (Len).
Unread(buf) == SubSeq(buf.data, buf.off + 1, Len(buf.data))

\* A decode target as the caller passes it: not yet handed to a decoder.
FreshTarget == [written |-> FALSE, val |-> "zero"]

NoRequest ==
    [built |-> FALSE, header |-> [c \in {"Content-Type"} |-> Absent],
     contentLength |-> 0, snapshot |-> <<>>, live |-> FALSE, ctx |-> FALSE]

NoReturn == [res |-> 0, err |-> NoErr, val |-> <<>>, ok |-> FALSE]

\* The execution history kept of the last terminal call, cleared by the
\* next call on the Request.
ClearExecution ==
    /\ term' = "none"
    /\ req' = NoRequest
    /\ rem' = 0
    /\ attempts' = <<>>
    /\ ret' = NoReturn
    /\ out' = FreshTarget
    /\ errOut' = FreshTarget

\* No goroutine but the caller's: nothing runs at once.
NoThreads ==
    [t \in Threads |->
        [prog |-> <<>>, done |-> 0, inCall |-> FALSE,
         seen |-> [k \in HeaderKeys |-> Absent]]]

InitRequest ==
    /\ err = NoErr
    /\ header = [k \in HeaderKeys |-> Absent]
    /\ expectedStatus = 0
    /\ retryCount = 0
    /\ body = NilBody
    /\ ctx = "nil"
    /\ given = <<>>
    /\ target \in {"valid", "invalid"}
    /\ pc = "idle"
    /\ term = "none"
    /\ req = NoRequest
    /\ rem = 0
    /\ attempts = <<>>
    /\ ret = NoReturn
    /\ out = FreshTarget
    /\ errOut = FreshTarget

Init ==
    /\ InitRequest
    /\ threads = NoThreads

(***************************************************************************)
(* Configuration methods.  Each returns the Request it was called on; a    *)
(* configuration call starts over the record of the last execution.        *)
(***************************************************************************)
Configurable ==
    /\ pc \in {"idle", "returned"}
    /\ pc' = "idle"
    /\ ClearExecution
    /\ UNCHANGED threads

\* r.header.Store(key, value)
HeaderStore(h, key, value) == [h EXCEPT ![key] = value]

WithBytes(b) ==
    /\ Configurable
    /\ body' = NewBuffer(b)
    /\ given' = b
    /\ UNCHANGED <<err, header, expectedStatus, retryCount, ctx, target>>

\* A Go string is its bytes: bytes.NewBufferString(s) holds the bytes of s.
WithString(s) ==
    /\ Configurable
    /\ body' = NewBuffer(s)
    /\ given' = s
    /\ UNCHANGED <<err, header, expectedStatus, retryCount, ctx, target>>

\* The error WithJSON / WithXML leaves in r.err after encoding with result
\* enc, given the error old that r.err held before the call.
EncodeError(old, enc) == enc.err

WithJSON(v) ==
    /\ Configurable
    /\ header' = HeaderStore(header, "Content-Type", "application/json")
    /\ body' = NewBuffer(JSONEncode(v).bytes)
    /\ err' = EncodeError(err, JSONEncode(v))
    /\ given' = JSONEncode(v).bytes
    /\ UNCHANGED <<expectedStatus, retryCount, ctx, target>>

WithXML(v) ==
    /\ Configurable
    /\ header' = HeaderStore(header, "Content-Type", "application/xml")
    /\ body' = NewBuffer(XMLEncode(v).bytes)
    /\ err' = EncodeError(err, XMLEncode(v))
    /\ given' = XMLEncode(v).bytes
    /\ UNCHANGED <<expectedStatus, retryCount, ctx, target>>

WithHeader(key, value) ==
    /\ Configurable
    /\ header' = HeaderStore(header, key, value)
    /\ UNCHANGED <<err, expectedStatus, retryCount, body, ctx, target, given>>

WithContentType(typ) ==
    /\ Configurable
    /\ header' = HeaderStore(header, "Content-Type", typ)
    /\ UNCHANGED <<err, expectedStatus, retryCount, body, ctx, target, given>>

WithExpectedStatus(expectedStatusCode) ==
    /\ Configurable
    /\ expectedStatus' = expectedStatusCode
    /\ UNCHANGED <<err, header, retryCount, body, ctx, target, given>>

WithRetry(n) ==
    /\ Configurable
    /\ retryCount' = n
    /\ UNCHANGED <<err, header, expectedStatus, body, ctx, target, given>>

\* WithContext with a context that is not done yet, or with one that is.
WithContext(c) ==
    /\ Configurable
    /\ ctx' = c
    /\ UNCHANGED <<err, header, expectedStatus, retryCount, body, target, given>>

\* The caller fires the cancellation of the context it gave to WithContext,
\* at any moment.
Cancel ==
    /\ ctx = "live"
    /\ ctx' = "cancelled"
    /\ UNCHANGED <<err, header, expectedStatus, retryCount, body, target, pc, term,
                   req, rem, attempts, ret, out, errOut, given, threads>>

\* Request.Error()
Error == err

(***************************************************************************)
(* Response: the wrapper Do returns around the transport's response.       *)
(* A response is the record of the attempt that produced it: its status,   *)
(* whether its body stream was drained, and how often it was closed.  The  *)
(* bytes of the stream are what the reader finds when it drains it.        *)
(***************************************************************************)
\* Response.StatusCode()
StatusCode(resp) == resp.status

\* Response.Close()
Close(resp) == [resp EXCEPT !.closed = @ + 1]

\* Response.Bytes(): drains the stream.
Drain(resp) == [resp EXCEPT !.read = TRUE]

\* Response.JSON(target) / Response.XML(target): drains the stream and
\* decodes its bytes b into the target it is given.
ResponseDecode(kind, b) == IF kind = "json" THEN JSONDecode(b) ELSE XMLDecode(b)

DecodeInto(t, d) ==
    [written |-> TRUE, val |-> IF d.err = NoErr THEN d.val ELSE t.val]

(***************************************************************************)
(* Execution.                                                              *)
(***************************************************************************)
\* Do without its first statement.
DeferredErrorIgnored(e) == FALSE

\* Do's first statement: a stored error ends the call before anything is
\* built or sent.
DeferredError(e) == e # NoErr

\* textproto.CanonicalMIMEHeaderKey, applied by http.Header.Set.
CanonicalKey(key) == "Content-Type"

\* toHTTPRequest: the requests it can build from the header store h, the
\* body b and the context cx.  http.NewRequest takes the length and a snapshot of the unread
\* part of a *bytes.Buffer and reads the body from the buffer itself (live);
\* an empty buffer or a nil body give http.NoBody.  header.Range visits the
\* stored keys in no fixed order and Header.Set keeps the last value set
\* under a canonical key.  The context cx is attached when it is not nil.
ToHTTPRequest(h, b, cx) ==
    LET stored(c) == {h[k] : k \in {x \in HeaderKeys : CanonicalKey(x) = c /\ h[x] # Absent}}
        choices(c) == IF stored(c) = {} THEN {Absent} ELSE stored(c)
    IN  {[built |-> TRUE,
          header |-> hdr,
          contentLength |-> Len(Unread(b)),
          snapshot |-> Unread(b),
          live |-> b.present /\ Len(Unread(b)) > 0,
          ctx |-> cx # "nil"] :
            hdr \in [{"Content-Type"} -> choices("Content-Type")]}

\* The status test without its guard on an expected status being set.
StatusUnexpectedUnguarded(expected, status) == status # expected

\* The status test of JSONWithError / XMLWithError: the response is not
\* the expected one.
StatusUnexpected(expected, status) == expected > 0 /\ status # expected

\* doRetry retrying while retries >= 0: one send too many.
DoRetryStepOffByOne(e, status, expected, retries) ==
    IF e # NoErr THEN "error"
    ELSE IF expected > 0 /\ status # expected /\ retries >= 0 THEN "retry"
    ELSE "return"

\* doRetry retrying whatever the status was.
DoRetryStepAnyStatus(e, status, expected, retries) ==
    IF e # NoErr THEN "error"
    ELSE IF expected > 0 /\ retries > 0 THEN "retry"
    ELSE "return"

\* doRetry retrying a failed send as it retries an unexpected status.
DoRetryStepOnError(e, status, expected, retries) ==
    IF e # NoErr /\ retries <= 0 THEN "error"
    ELSE IF e # NoErr THEN "retry"
    ELSE IF expected > 0 /\ status # expected /\ retries > 0 THEN "retry"
    ELSE "return"

\* doRetry retrying without an expected status being set.
DoRetryStepUngated(e, status, expected, retries) ==
    IF e # NoErr THEN "error"
    ELSE IF status # expected /\ retries > 0 THEN "retry"
    ELSE "return"

\* doRetry after c.Do returned: what it does with the outcome (e, status)
\* of the send, given its parameters expected and retries.
DoRetryStep(e, status, expected, retries) ==
    IF e # NoErr THEN "error"
    ELSE IF expected > 0 /\ status # expected /\ retries > 0 THEN "retry"
    ELSE "return"

\* Do wrapping the result as if a status other than the expected one were an
\* error, as the comment of WithExpectedStatus has it.
DoReturnStrict(att, k, e) ==
    IF e # NoErr THEN [res |-> 0, err |-> e]
    ELSE IF StatusUnexpected(expectedStatus, StatusCode(att[k]))
    THEN [res |-> 0, err |-> "unexpected status"]
    ELSE [res |-> k, err |-> NoErr]

\* The tail of Do: what it returns for doRetry's result (e, or the response
\* of attempt k of att).
DoReturn(att, k, e) ==
    IF e # NoErr THEN [res |-> 0, err |-> e] ELSE [res |-> k, err |-> NoErr]

\* JSONWithError / XMLWithError decoding into out whatever the status.
WithErrorTargetAlwaysOut(unexpected) == "out"

\* The target JSONWithError / XMLWithError hand to the decoder.
WithErrorTarget(unexpected) == IF unexpected THEN "errOut" ELSE "out"

\* A convenience method that returns without closing the response.
DeferCloseForgotten(resp) == resp

\* defer res.Close() of the convenience methods: runs once when the method
\* returns, whatever the decoding returned.
DeferClose(resp) == Close(resp)

\* The rest of terminal method m once Do returned (response k of att, e);
\* b are the bytes the response's stream yields when drained.
Finish(m, att, k, e, b) ==
    LET do == DoReturn(att, k, e)
        kind == IF m \in {"JSON", "JSONWithError"} THEN "json" ELSE "xml"
        d == ResponseDecode(kind, b)
        unexpected == StatusUnexpected(expectedStatus, StatusCode(att[do.res]))
        tgt == IF m \in {"JSONWithError", "XMLWithError"}
               THEN WithErrorTarget(unexpected) ELSE "out"
        used == [att EXCEPT ![do.res] = DeferClose(Drain(@))]
    IN  /\ pc' = "returned"
        /\ IF m = "Do"
           THEN /\ ret' = [res |-> do.res, err |-> do.err, val |-> <<>>, ok |-> FALSE]
                /\ attempts' = att
                /\ UNCHANGED <<out, errOut>>
           ELSE IF do.err # NoErr
           THEN /\ ret' = [res |-> 0, err |-> do.err, val |-> <<>>, ok |-> FALSE]
                /\ attempts' = att
                /\ UNCHANGED <<out, errOut>>
           ELSE IF m \in {"Bytes", "String"}
           THEN /\ ret' = [res |-> 0, err |-> NoErr, val |-> b, ok |-> FALSE]
                /\ attempts' = used
                /\ UNCHANGED <<out, errOut>>
           ELSE /\ ret' = [res |-> 0, err |-> d.err, val |-> <<>>,
                           ok |-> m \in {"JSONWithError", "XMLWithError"} /\ ~unexpected]
                /\ attempts' = used
                /\ out' = IF tgt = "out" THEN DecodeInto(out, d) ELSE out
                /\ errOut' = IF tgt = "errOut" THEN DecodeInto(errOut, d) ELSE errOut

\* A terminal method is called: Do up to the first c.Do of doRetry.
Call(m) ==
    /\ pc \in {"idle", "returned"}
    /\ term' = m
    /\ UNCHANGED <<config, ctx, given, threads>>
    /\ IF DeferredError(err)
       THEN /\ Finish(m, <<>>, 0, err, <<>>)
            /\ req' = NoRequest
            /\ rem' = 0
       ELSE IF target = "invalid"
       THEN /\ Finish(m, <<>>, 0, "net/http: invalid method or URL", <<>>)
            /\ req' = NoRequest
            /\ rem' = 0
       ELSE /\ req' \in ToHTTPRequest(header, body, ctx)
            /\ rem' = retryCount
            /\ attempts' = <<>>
            /\ ret' = NoReturn
            /\ out' = FreshTarget
            /\ errOut' = FreshTarget
            /\ pc' = "sending"

\* c.Do(r) reads the request body to its end: the bytes it sends, and the
\* buffer afterwards.
Sent(rq, buf) == IF rq.live THEN Unread(buf) ELSE <<>>

Drained(rq, buf) == IF rq.live THEN [buf EXCEPT !.off = Len(buf.data)] ELSE buf

\* The request carries a context whose cancellation has fired.
Cancelled(rq) == rq.ctx /\ ctx = "cancelled"

\* c.Do(r) returns a response with the given status, whose stream will
\* yield the bytes b.  The transport answers no request whose context is
\* cancelled: it fails it.
TransportRespond(status, b) ==
    /\ pc = "sending"
    /\ ~Cancelled(req)
    /\ LET att == Append(attempts,
                     [err |-> NoErr, status |-> status, sent |-> Sent(req, body),
                      read |-> FALSE, closed |-> 0])
           step == DoRetryStep(NoErr, status, expectedStatus, rem)
       IN  /\ body' = Drained(req, body)
           /\ IF step = "retry"
              THEN /\ attempts' = att
                   /\ rem' = rem - 1
                   /\ UNCHANGED <<pc, ret, out, errOut>>
              ELSE /\ Finish(term, att, IF step = "return" THEN Len(att) ELSE 0,
                             NoErr, b)
                   /\ UNCHANGED rem
    /\ UNCHANGED <<err, header, expectedStatus, retryCount, ctx, target, term, req,
                   given, threads>>

\* c.Do(r) fails with transport error e, having read the request body
\* (sentBody) or not.
TransportFail(e, sentBody) ==
    /\ pc = "sending"
    /\ LET att == Append(attempts,
                     [err |-> e, status |-> 0,
                      sent |-> IF sentBody THEN Sent(req, body) ELSE <<>>,
                      read |-> FALSE, closed |-> 0])
           step == DoRetryStep(e, 0, expectedStatus, rem)
       IN  /\ body' = IF sentBody THEN Drained(req, body) ELSE body
           /\ IF step = "retry"
              THEN /\ attempts' = att
                   /\ rem' = rem - 1
                   /\ UNCHANGED <<pc, ret, out, errOut>>
              ELSE /\ Finish(term, att, 0, IF step = "error" THEN e ELSE NoErr, <<>>)
                   /\ UNCHANGED rem
    /\ UNCHANGED <<err, header, expectedStatus, retryCount, ctx, target, term, req,
                   given, threads>>

Next ==
    \/ \E b \in ByteStrings : WithBytes(b)
    \/ \E s \in ByteStrings : WithString(s)
    \/ \E v \in GoValues : WithJSON(v)
    \/ \E v \in GoValues : WithXML(v)
    \/ \E k \in HeaderKeys, v \in HeaderValues : WithHeader(k, v)
    \/ \E t \in HeaderValues : WithContentType(t)
    \/ \E c \in ExpectedStatuses : WithExpectedStatus(c)
    \/ \E n \in RetryCounts : WithRetry(n)
    \/ \E c \in {"live", "cancelled"} : WithContext(c)
    \/ Cancel
    \/ \E m \in Terminals : Call(m)
    \/ \E st \in Statuses, b \in ResponseBodies : TransportRespond(st, b)
    \/ \E e \in TransportErrors, sentBody \in BOOLEAN : TransportFail(e, sentBody)

Spec == Init /\ [][Next]_vars

(***************************************************************************)
(* Several goroutines calling WithHeader on one Request at once.  Each     *)
(* goroutine makes the calls of its program in order: the i-th call of     *)
(* goroutine t stores ThreadValue(t, i) under the i-th key of its program. *)
(* A call is entered (BeginWithHeader) and then stores and returns         *)
(* (StoreHeader); calls of different goroutines overlap.                   *)
(***************************************************************************)
Programs == UNION {[1..n -> HeaderKeys] : n \in 1..MaxCalls}

ThreadValue(t, i) == "goroutine " \o ToString(t) \o " call " \o ToString(i)

\* A map written without synchronisation: the write works on the map as the
\* call found it and loses what was stored since.
UnsyncStore(h, seen, key, value) == HeaderStore(seen, key, value)

\* sync.Map.Store: the write is atomic and applies to the map as it is, h,
\* whatever the map was (seen) when the call was entered.
SyncStore(h, seen, key, value) == HeaderStore(h, key, value)

InitConcurrent ==
    /\ InitRequest
    /\ threads \in [Threads -> {[prog |-> p, done |-> 0, inCall |-> FALSE,
                                  seen |-> [k \in HeaderKeys |-> Absent]] :
                                    p \in Programs}]

BeginWithHeader(t) ==
    /\ ~threads[t].inCall
    /\ threads[t].done < Len(threads[t].prog)
    /\ threads' = [threads EXCEPT ![t].inCall = TRUE, ![t].seen = header]
    /\ UNCHANGED <<err, header, expectedStatus, retryCount, body, ctx, target, pc,
                   term, req, rem, attempts, ret, out, errOut, given>>

StoreHeader(t) ==
    /\ threads[t].inCall
    /\ LET i == threads[t].done + 1
       IN  /\ header' = SyncStore(header, threads[t].seen, threads[t].prog[i],
                                  ThreadValue(t, i))
           /\ threads' = [threads EXCEPT ![t].inCall = FALSE, ![t].done = i]
    /\ UNCHANGED <<err, expectedStatus, retryCount, body, ctx, target, pc,
                   term, req, rem, attempts, ret, out, errOut, given>>

NextConcurrent ==
    \/ \E t \in Threads : BeginWithHeader(t)
    \/ \E t \in Threads : StoreHeader(t)

SpecConcurrent == InitConcurrent /\ [][NextConcurrent]_vars

(***************************************************************************)
(* Properties.                                                             *)
(***************************************************************************)
Returned == pc = "returned"

\* The last terminal call got past the stored-error check and toHTTPRequest,
\* so doRetry ran.
Executed == Returned /\ err = NoErr /\ target = "valid"

Last == attempts[Len(attempts)]

\* The last send produced a response.
GotResponse == Len(attempts) > 0 /\ Last.err = NoErr

\* Every send so far produced a response with a status other than S.
AllMismatch(S) ==
    \A i \in 1..Len(attempts) : attempts[i].err = NoErr /\ attempts[i].status # S

WithErrorMethods == {"JSONWithError", "XMLWithError"}

C2_MatchStopsRetrying ==
    expectedStatus > 0 =>
        /\ \A i \in 1..(Len(attempts) - 1) : attempts[i].status # expectedStatus
        /\ (pc = "sending" /\ Len(attempts) > 0 => Last.status # expectedStatus)
        /\ (Returned /\ term = "Do" /\ GotResponse /\ Last.status = expectedStatus =>
               /\ ret.res = Len(attempts)
               /\ ret.err = NoErr
               /\ Len(attempts) <= retryCount + 1)

C2_Witness ==
    /\ Returned /\ term = "Do" /\ expectedStatus > 0 /\ retryCount = 2
    /\ Len(attempts) = 2
    /\ attempts[1].status # expectedStatus
    /\ attempts[2].err = NoErr /\ attempts[2].status = expectedStatus
    /\ ret.res = 2

\* C3: a send that fails is the last send of its execution, whatever retries
\* remain, and the terminal method returns the error of that send and no
\* Response.
C3_TransportErrorNotRetried ==
    /\ \A i \in 1..(Len(attempts) - 1) : attempts[i].err = NoErr
    /\ (Len(attempts) > 0 /\ Last.err # NoErr =>
           /\ Returned
           /\ ret.err = Last.err
           /\ ret.res = 0)

C3_Witness ==
    /\ Returned /\ term = "Do" /\ expectedStatus > 0 /\ retryCount = 2
    /\ Len(attempts) = 2
    /\ attempts[1].err = NoErr
    /\ attempts[2].err \in TransportErrors
    /\ ret.err = attempts[2].err
    /\ ret.res = 0

\* C4: while the Request holds a stored error, nothing is sent, and every
\* terminal method returns that error, no Response, and writes no target.
C4_DeferredErrorShortCircuits ==
    err # NoErr =>
        /\ pc # "sending"
        /\ attempts = <<>>
        /\ (Returned =>
               /\ ret.err = Error
               /\ ret.res = 0
               /\ ~ret.ok
               /\ ~out.written /\ ~errOut.written)

C4_Witness ==
    /\ Returned /\ term = "Bytes" /\ target = "valid"
    /\ err = "json: unsupported type"
    /\ ret.err = err
    /\ attempts = <<>>

\* C5: once a WithJSON or WithXML call has failed, Error() returns that
\* first error after every later step.
C5_FirstErrorSticks == [][err # NoErr => err' = err]_vars

\* C6: with no expected status set, an execution makes exactly one send,
\* whatever the retry count and whatever the status answered.
C6_RetryNeedsExpectedStatus ==
    expectedStatus = 0 =>
        /\ (pc = "sending" => attempts = <<>>)
        /\ Len(attempts) <= 1
        /\ (Executed => Len(attempts) = 1)

C6_Witness ==
    /\ Executed /\ term = "Do" /\ expectedStatus = 0 /\ retryCount = 2
    /\ Len(attempts) = 1
    /\ attempts[1].status = 500
    /\ ret.res = 1

C8_UnexpectedStatusIsAnError ==
    (Returned /\ expectedStatus > 0 /\ retryCount = 0 /\ GotResponse
        /\ Last.status # expectedStatus) =>
        ret.err # NoErr

\* C9: when JSONWithError / XMLWithError got a response, the boolean is false
\* exactly when an expected status is set and the response's status differs
\* from it: the test that makes doRetry retry.
C9_ExpectedFlag ==
    (Returned /\ term \in WithErrorMethods /\ GotResponse) =>
        /\ ret.ok = ~(expectedStatus > 0 /\ Last.status # expectedStatus)
        /\ (~ret.ok => DoRetryStep(NoErr, Last.status, expectedStatus, 1) = "retry")
        /\ (ret.ok => DoRetryStep(NoErr, Last.status, expectedStatus, 1) = "return")

C9_Witness ==
    /\ Returned /\ term = "JSONWithError" /\ expectedStatus = 200 /\ retryCount = 1
    /\ Len(attempts) = 2
    /\ Last.err = NoErr /\ Last.status = 500
    /\ ~ret.ok

\* C10: JSONWithError / XMLWithError hand exactly one target to the decoder:
\* errOut when the status is not the expected one, out otherwise; with no
\* response (a stored or transport error) neither, and the boolean is false.
C10_OneDecodeTarget ==
    (Returned /\ term \in WithErrorMethods) =>
        IF GotResponse
        THEN IF expectedStatus > 0 /\ Last.status # expectedStatus
             THEN /\ errOut.written /\ ~out.written /\ out = FreshTarget
                  /\ (ret.err = NoErr => errOut.val = "int1")
             ELSE /\ out.written /\ ~errOut.written /\ errOut = FreshTarget
                  /\ (ret.err = NoErr => out.val = "int1")
        ELSE /\ out = FreshTarget /\ errOut = FreshTarget
             /\ ~ret.ok

C10_Witness ==
    /\ Returned /\ term = "XMLWithError" /\ expectedStatus = 201
    /\ GotResponse /\ Last.status = 500
    /\ errOut.written /\ errOut.val = "int1"
    /\ out = FreshTarget
    /\ ret.err = NoErr

\* C11: header writes are last-write-wins per name: right after a call stored
\* a value under a key, every request toHTTPRequest can build carries that
\* value, and no other, under the key's header name.
C11_HeaderLastWriteWins ==
    [][\A k \in HeaderKeys :
          header'[k] # header[k] =>
              \A r \in ToHTTPRequest(header', body', ctx') :
                  r.header[CanonicalKey(k)] = header'[k]]_vars

\* C12: with a non-empty body, an expected status and at least one retry,
\* every send of an execution that a response answered carried the body
\* bytes that were configured, as the first send did.
C12_BodyReplayedOnRetry ==
    (expectedStatus > 0 /\ retryCount >= 1 /\ Len(given) > 0
        /\ Len(attempts) >= 1 /\ attempts[1].sent = given) =>
        \A i \in 1..Len(attempts) :
            attempts[i].err = NoErr => attempts[i].sent = given

\* C13: a convenience method that got a Response from Do has closed it
\* exactly once when it returns, whether decoding succeeded or failed; the
\* Response Do returns is neither read nor closed.
C13_ReleasedExactlyOnce ==
    (Returned /\ GotResponse) =>
        IF term = "Do"
        THEN ret.res = Len(attempts) /\ Last.closed = 0 /\ ~Last.read
        ELSE Last.closed = 1

C13_Witness ==
    /\ Returned /\ term = "JSON" /\ GotResponse
    /\ ret.err = "json: invalid character"
    /\ Last.closed = 1

\* C14: once a stored error is set, no later step changes the body.
C14_BodyFrozenAfterError == [][err # NoErr => body' = body]_vars

AllReturned ==
    \A t \in Threads : ~threads[t].inCall /\ threads[t].done = Len(threads[t].prog)

Calls(t, k) == {i \in 1..Len(threads[t].prog) : threads[t].prog[i] = k}

LastCall(t, k) == CHOOSE i \in Calls(t, k) : \A j \in Calls(t, k) : j <= i

C16_ConcurrentWithHeader ==
    AllReturned =>
        \A k \in HeaderKeys :
            LET writers == {t \in Threads : Calls(t, k) # {}}
            IN  /\ (writers = {} => header[k] = Absent)
                /\ (writers # {} =>
                       \E t \in writers : \E i \in Calls(t, k) :
                           header[k] = ThreadValue(t, i))
                /\ \A t \in writers :
                       writers = {t} => header[k] = ThreadValue(t, LastCall(t, k))

C16_Witness ==
    /\ AllReturned
    /\ threads[1].prog = <<"Content-Type", "content-type">>
    /\ threads[2].prog = <<"Content-Type", "Content-Type">>
    /\ header["Content-Type"] = ThreadValue(1, 1)
    /\ header["content-type"] = ThreadValue(1, 2)

\* C17: doRetry does not look at the context itself: an execution ends only
\* with the outcome of a send, and once the cancellation of the request's
\* context has fired, the next send is the last one: it fails, and the
\* terminal method returns its error and no Response.
C17_CancelBetweenAttempts ==
    [][pc = "sending" =>
          /\ (pc' # "sending" => Len(attempts') = Len(attempts) + 1)
          /\ (Cancelled(req) /\ attempts' # attempts =>
                 /\ Len(attempts') = Len(attempts) + 1
                 /\ attempts'[Len(attempts')].err # NoErr
                 /\ pc' = "returned"
                 /\ ret'.err = attempts'[Len(attempts')].err
                 /\ ret'.res = 0)]_vars

C17_Witness ==
    /\ Returned /\ term = "Do" /\ Cancelled(req)
    /\ expectedStatus > 0 /\ retryCount = 2
    /\ Len(attempts) = 2
    /\ attempts[1].err = NoErr
    /\ attempts[2].err = "context canceled"
    /\ ret.err = "context canceled" /\ ret.res = 0

\* C18: when a terminal method returns, every response the transport
\* produced in that execution, other than the one handed to the caller,
\* has been closed.
C18_NoResponseLeaked ==
    Returned =>
        \A i \in 1..Len(attempts) :
            (attempts[i].err = NoErr /\ i # ret.res) => attempts[i].closed >= 1

\* C19: the headers of the request built depend only on the configuration
\* calls made: every request toHTTPRequest can build from the Request
\* carries the same header names and values.
C19_HeadersDeterministic ==
    \A r1, r2 \in ToHTTPRequest(header, body, ctx) : r1.header = r2.header

\* C20: a terminal method called again with no configuration call in between
\* builds the request the call before it built: same headers, same body.
C20_ExecutionKeepsBuilder ==
    [][(pc = "returned" /\ req.built /\ pc' = "sending") => req' = req]_vars

====
